---- MODULE Spec2Model ----
(***************************************************************************)
(* Model of the download_management extension of Vortex                    *)
(* (src/src/extensions/download_management/index.ts): the startup          *)
(* recovery of persisted download records, the speed callback, the         *)
(* directory refresh (updateDownloadPath / refreshDownloads) and the       *)
(* directory watcher.                                                      *)
(*                                                                         *)
(* JavaScript values are encoded so that TLC can compare them:             *)
(*   - strings and ids are TLA+ strings, the value undefined is the string *)
(*     "undefined";                                                        *)
(*   - the urls array is one of "undefined", "[]" (the empty array) and    *)
(*     "[u1]" (a non-empty array);                                         *)
(*   - a number is a record [t |-> "number", v |-> n]; NaN and undefined   *)
(*     are records of the same shape with t = "NaN" / "undefined";         *)
(*   - an optional array is [t |-> "array", v |-> <<...>>] or              *)
(*     [t |-> "undefined", v |-> <<>>].                                    *)
(***************************************************************************)
EXTENDS Integers, Sequences, FiniteSets, TLC

VARIABLES
  files,          \* state.persistent.downloads.files: id -> download record
  speed,          \* state.persistent.downloads.speed
  reports,        \* the speeds the manager reported so far, oldest first
  disk,           \* names of the (non-directory) files in the download directory
  dirExists,      \* whether the download directory exists
  pc,             \* position of the context.once callback: "boot" | "ready"
  pathDefined,    \* selectors.downloadPath(state) !== undefined
  persisted,      \* the records as they were persisted (the callback's `downloads`)
  pendingRemove,  \* ids whose fs.removeAsync(partial file) is in flight
  interruptedWith,\* <<id, value>> for every setDownloadInterrupted(id, value) dispatched
  removeDispatched, \* ids of every removeDownload(id) dispatched
  deleted,        \* paths startup recovery deleted from disk
  starts,         \* number of 'start-download' requests the observer handled
  lateRecovery,   \* ids whose recovery transition was applied after a start request
  nextNew,        \* number of ids shortid() has generated
  activeGame,     \* selectors.activeGameId(state)
  runs,           \* the calls of updateDownloadPath: run -> its closure and position
  nextRun,        \* number of calls of updateDownloadPath so far
  currentWatch,   \* the run whose change handler currentWatch holds (0: undefined)
  watchOpen,      \* whether the watcher held by currentWatch is open
  watchEnabled,   \* the module's watchEnabled flag
  pendingRename,  \* <<run, fileName>>: 'rename' events waiting in Promise.delay(1000)
  extChanges,     \* number of changes made to the directory from outside
  now,            \* the clock, in milliseconds
  timer,          \* speedsDebouncer's timer: whether it is set and when it is due
  published,      \* the speed the last setDownloadSpeeds dispatch carried
  publishTimes,   \* the time of every setDownloadSpeeds dispatch, oldest first
  owed,           \* a speed change was applied and no setDownloadSpeeds followed yet
  installerUI,    \* the installer dialog's state: key -> value
  prevUI,         \* the state the last installer action was applied to
  lastAction,     \* the last installer action: its type and its payload
  runLimit,       \* the number of calls of updateDownloadPath a behaviour follows
  openWatchers,   \* the runs whose watcher was opened and not closed
  managerPath,    \* the download path the manager was given last
  pendingUpdate,  \* <<run, fileName>>: 'update' timeouts waiting for their 5 seconds
  updateSeen,     \* <<run, fileName>>: accepted 'update' events for a file with a record
  moves,          \* the calls of move: call -> its closure and position
  nextMove,       \* number of files 'import-downloads' was given so far
  importEvents,   \* the ids 'did-import-download' was emitted with, oldest first
  progressDispatched \* <<id, received, total>> of every downloadProgress dispatched

vars == <<files, speed, reports, disk, dirExists, pc, pathDefined, persisted,
          pendingRemove, interruptedWith, removeDispatched, deleted, starts,
          lateRecovery, nextNew, activeGame, runs, nextRun, currentWatch,
          watchOpen, watchEnabled, pendingRename, extChanges,
          now, timer, published, publishTimes, owed,
          installerUI, prevUI, lastAction, runLimit, openWatchers,
          managerPath, pendingUpdate, updateSeen, moves, nextMove,
          importEvents, progressDispatched>>

\* the variables of the import
importVars == <<moves, nextMove, importEvents, progressDispatched>>

\* the 'update' events of the watcher
updateVars == <<pendingUpdate, updateSeen>>

\* the manager's path, the watchers and the number of refreshes followed
pathVars == <<runLimit, openWatchers, managerPath>>

\* the variables of the installer dialog
installerVars == <<installerUI, prevUI, lastAction>>

\* the variables of the download management
downloadVars == <<files, speed, reports, disk, dirExists, pc, pathDefined,
                  persisted, pendingRemove, interruptedWith, removeDispatched,
                  deleted, starts, lateRecovery, nextNew, activeGame, runs,
                  nextRun, currentWatch, watchOpen, watchEnabled,
                  pendingRename, extChanges, now, timer, published,
                  publishTimes, owed, runLimit, openWatchers, managerPath,
                  pendingUpdate, updateSeen, moves, nextMove, importEvents,
                  progressDispatched>>

\* the variables of speedsDebouncer and of the clock
debounceVars == <<now, timer, published, publishTimes, owed>>

\* the variables of the directory refresh and of the watcher
refreshVars == <<activeGame, runs, nextRun, currentWatch, watchOpen,
                 watchEnabled, pendingRename, extChanges>>

----------------------------------------------------------------------------
(* Bounds of the model *)

\* the largest totalSize / chunk size / speed drawn as an input
MaxSize == 2
\* the longest persisted chunk list
MaxChunks == 2
\* the number of 'start-download' requests handled
MaxStarts == 1
\* the number of calls of updateDownloadPath
MaxRuns == 1
\* the number of files created in or deleted from the directory from outside
MaxExt == 1

----------------------------------------------------------------------------
(* JavaScript values *)

Undefined == "undefined"

Num(n) == [t |-> "number", v |-> n]
NaN == [t |-> "NaN", v |-> 0]
UndefNum == [t |-> "undefined", v |-> 0]

\* a - b in JavaScript: NaN unless both are numbers
JsMinus(a, b) ==
  IF a.t = "number" /\ b.t = "number" THEN Num(a.v - b.v) ELSE NaN

\* a + b in JavaScript, for numbers, undefined and NaN
JsPlus(a, b) ==
  IF a.t = "number" /\ b.t = "number" THEN Num(a.v + b.v) ELSE NaN

\* isNaN(x): true for NaN and for undefined
isNaN(x) == x.t # "number"

\* util.truthy: !!val, for the encoded strings and arrays ("[]" is truthy)
truthy(val) == val \notin {Undefined, ""}

\* util.sum: container.reduce((total, value) => total + value, 0)
RECURSIVE sum(_)
sum(container) ==
  IF container = <<>> THEN Num(0)
  ELSE JsPlus(sum(SubSeq(container, 1, Len(container) - 1)),
              container[Len(container)])

\* arr.map(chunk => chunk.size)
chunkSizes(arr) == [i \in 1..Len(arr) |-> arr[i].size]

\* arr.map(chunk => chunk.received)
chunkReceived(arr) == [i \in 1..Len(arr) |-> arr[i].received]

\* (chunks || [])
orEmpty(chunks) == IF chunks.t = "undefined" THEN <<>> ELSE chunks.v

----------------------------------------------------------------------------
(* Download records and the store's reducers *)

\* ids in the order they were inserted into state.persistent.downloads.files
\* (the order of Object.keys): the persisted ones, then the generated ones
PersistedIds == {"d1", "d2"}
NewIds == <<"n1", "n2">>
IdOrder == <<"d1", "d2", "n1", "n2">>

Names == {"a.zip", "b.txt"}
Games == {"g1", "g2"}

\* the values of IDownload.state a persisted record can hold
PersistedStates == {"init", "started", "pending", "paused", "finished", "failed"}

keys(downloads) == DOMAIN downloads

\* reducer of removeDownload(id): the record is dropped (nothing for an unknown id)
removeDownloadR(fs, id) == [k \in (DOMAIN fs) \ {id} |-> fs[k]]

\* reducer of setDownloadInterrupted(id, realReceived)
setDownloadInterruptedR(fs, id) ==
  IF id \in DOMAIN fs THEN [fs EXCEPT ![id].state = "interrupted"] ELSE fs

\* reducer of addLocalDownload(id, game, fileName, size): a finished record
addLocalDownloadR(fs, id, game, fileName) ==
  [k \in (DOMAIN fs) \cup {id} |->
     IF k = id
       THEN [state |-> "finished", urls |-> "[]", localPath |-> fileName,
             game |-> game, size |-> Num(0),
             chunks |-> [t |-> "array", v |-> <<>>]]
       ELSE fs[k]]

\* the record DownloadObserver creates for a 'start-download' request
initDownloadR(fs, id, game) ==
  [k \in (DOMAIN fs) \cup {id} |->
     IF k = id
       THEN [state |-> "init", urls |-> "[u1]", localPath |-> Undefined,
             game |-> game, size |-> Num(0),
             chunks |-> [t |-> "undefined", v |-> <<>>]]
       ELSE fs[k]]

----------------------------------------------------------------------------
(* File names, index.ts 48-59, and the change handler's entry, 132-137 *)

archiveExtLookup ==
  {".zip", ".z01", ".7z", ".rar", ".r00", ".001", ".bz2", ".bzip2", ".gz",
   ".gzip", ".xz", ".z", ".fomod"}

\* path.extname(filePath).toLowerCase(), for the file names of the model
extnameLower(filePath) ==
  CASE filePath = "a.zip" -> ".zip"
    [] filePath = "b.txt" -> ".txt"
    [] OTHER -> ""

knownArchiveExt(filePath) ==
  IF ~truthy(filePath) THEN FALSE
  ELSE extnameLower(filePath) \in archiveExtLookup

\* the function getNormalizeFunc resolves to: the name in upper case
normalize(input) ==
  CASE input = "a.zip" -> "A.ZIP"
    [] input = "b.txt" -> "B.TXT"
    [] OTHER -> input

\* the position of an id in Object.keys(files)
RECURSIVE indexOf(_, _)
indexOf(q, x) == IF q = <<>> THEN 0
                 ELSE IF q[Len(q)] = x THEN Len(q)
                 ELSE indexOf(SubSeq(q, 1, Len(q) - 1), x)

\* the event handler returns at once unless the watch is enabled and the file
\* has a known archive extension
handlerAccepts(enabled, fileName) ==
  enabled /\ fileName # Undefined /\ knownArchiveExt(fileName)

\* the 'rename' events waiting after the directory reported a change of
\* fileName to the open watcher
afterChange(pending, watch, open, enabled, fileName) ==
  IF watch # 0 /\ open /\ handlerAccepts(enabled, fileName)
    THEN pending \cup {<<watch, fileName>>}
    ELSE pending

----------------------------------------------------------------------------
(* Startup recovery: the context.once callback, index.ts 509-561 *)

\* mutant: 'pending' is forgotten
interruptibleStatesNoPending == {"init", "started"}

\* ['init', 'started', 'pending'].indexOf(downloads[id].state) !== -1
interruptibleStates == {"init", "started", "pending"}

interruptedDownloads(downloads) ==
  {id \in keys(downloads) : downloads[id].state \in interruptibleStates}

\* the branch taken for an interrupted download: urls were never retrieved
neverRetrieved(download) == ~truthy(download.urls)

\* (downloadPath !== undefined) && (downloads[id].localPath !== undefined)
hasPartialFile(downloadPathDefined, download) ==
  downloadPathDefined /\ download.localPath # Undefined

\* mutant: the bytes received are subtracted instead of the chunk sizes
realSizeFromReceived(download) ==
  LET raw == IF download.size # Num(0)
               THEN JsMinus(download.size, sum(chunkReceived(orEmpty(download.chunks))))
               ELSE Num(0)
  IN IF isNaN(raw) THEN Num(0) ELSE raw

\* the value handed to setDownloadInterrupted
realSize(download) ==
  LET raw == IF download.size # Num(0)
               THEN JsMinus(download.size, sum(chunkSizes(orEmpty(download.chunks))))
               ELSE Num(0)
  IN IF isNaN(raw) THEN Num(0) ELSE raw

\* downloads that have no localPath set
withoutLocalPath(downloads) ==
  {id \in keys(downloads) : ~truthy(downloads[id].localPath)}

\* the synchronous part of the callback: the manager and the observer are
\* created, every interrupted download is either cancelled (its partial file
\* first, asynchronously, when it has one) or marked interrupted, and the
\* downloads without localPath are removed
Startup ==
  /\ pc = "boot"
  /\ LET downloads == files
         cancelled == {id \in interruptedDownloads(downloads) :
                         neverRetrieved(downloads[id])}
         async == {id \in cancelled : hasPartialFile(pathDefined, downloads[id])}
         marked == interruptedDownloads(downloads) \ cancelled
         gone == (cancelled \ async) \cup withoutLocalPath(downloads)
     IN /\ files' = [id \in keys(downloads) \ gone |->
                       IF id \in marked
                         THEN setDownloadInterruptedR(downloads, id)[id]
                         ELSE downloads[id]]
        /\ pendingRemove' = async
        /\ interruptedWith' = {<<id, realSize(downloads[id])>> : id \in marked}
        /\ removeDispatched' = gone
  /\ pc' = "ready"
  /\ UNCHANGED <<speed, reports, disk, dirExists, pathDefined, persisted,
                 deleted, starts, lateRecovery, nextNew>>
  /\ UNCHANGED refreshVars
  /\ UNCHANGED debounceVars
  /\ UNCHANGED installerVars
  /\ UNCHANGED pathVars
  /\ UNCHANGED updateVars
  /\ UNCHANGED importVars

\* fs.removeAsync(path.join(downloadPath, localPath)) resolved: the file (the
\* whole directory for the path '') is gone and removeDownload(id) is dispatched
RemoveAsyncDone(id) ==
  /\ id \in pendingRemove
  /\ LET p == persisted[id].localPath
     IN /\ disk' = IF p = "" THEN {} ELSE disk \ {p}
        /\ dirExists' = (dirExists /\ p # "")
        /\ deleted' = IF (p = "" /\ dirExists) \/ p \in disk
                        THEN deleted \cup {p} ELSE deleted
  /\ pendingRemove' = pendingRemove \ {id}
  /\ files' = removeDownloadR(files, id)
  /\ removeDispatched' = removeDispatched \cup {id}
  /\ lateRecovery' = IF starts > 0 THEN lateRecovery \cup {id} ELSE lateRecovery
  /\ pendingRename' =
       IF persisted[id].localPath \in disk
         THEN afterChange(pendingRename, currentWatch, watchOpen, watchEnabled,
                          persisted[id].localPath)
         ELSE pendingRename
  /\ UNCHANGED <<speed, reports, pc, pathDefined, persisted, interruptedWith,
                 starts, nextNew, activeGame, runs, nextRun, currentWatch,
                 watchOpen, watchEnabled, extChanges>>
  /\ UNCHANGED debounceVars
  /\ UNCHANGED installerVars
  /\ UNCHANGED pathVars
  /\ UNCHANGED updateVars
  /\ UNCHANGED importVars

\* fs.removeAsync rejected (the file is locked or may not be deleted): the
\* promise has no catch handler, nothing is dispatched
RemoveAsyncFail(id) ==
  /\ id \in pendingRemove
  /\ LET p == persisted[id].localPath
     IN (p = "" /\ dirExists) \/ p \in disk
  /\ pendingRemove' = pendingRemove \ {id}
  /\ UNCHANGED <<files, speed, reports, disk, dirExists, pc, pathDefined,
                 persisted, interruptedWith, removeDispatched, deleted, starts,
                 lateRecovery, nextNew>>
  /\ UNCHANGED refreshVars
  /\ UNCHANGED debounceVars
  /\ UNCHANGED installerVars
  /\ UNCHANGED pathVars
  /\ UNCHANGED updateVars
  /\ UNCHANGED importVars

\* the observer, created in the callback before the recovery, handles a
\* 'start-download' event: a record is created for the request
StartDownload ==
  /\ pc = "ready"
  /\ starts < MaxStarts
  /\ nextNew < Len(NewIds)
  /\ files' = initDownloadR(files, NewIds[nextNew + 1], "g1")
  /\ nextNew' = nextNew + 1
  /\ starts' = starts + 1
  /\ UNCHANGED <<speed, reports, disk, dirExists, pc, pathDefined, persisted,
                 pendingRemove, interruptedWith, removeDispatched, deleted,
                 lateRecovery>>
  /\ UNCHANGED refreshVars
  /\ UNCHANGED debounceVars
  /\ UNCHANGED installerVars
  /\ UNCHANGED pathVars
  /\ UNCHANGED updateVars
  /\ UNCHANGED importVars

----------------------------------------------------------------------------
(* updateDownloadPath and refreshDownloads, index.ts 61-82 and 200-285 *)

\* a call of updateDownloadPath that has not been made yet
idleRun ==
  [pc |-> "idle", gameId |-> Undefined, downloads |-> <<>>, nameIdMap |-> <<>>,
   pendingAdd |-> {}, removedDLs |-> <<>>, failed |-> FALSE]

\* overlapping refreshes are followed for one call more than MaxRuns
MaxOverlap == MaxRuns + 1

RunIds == 1..MaxOverlap

\* selectors.downloadPathForGame(state, gameId): one directory per game
downloadPathForGame(gameId) == gameId

\* the variables updateDownloadPath and the watcher leave alone
recoveryVars == <<speed, reports, pc, pathDefined, persisted, pendingRemove,
                  interruptedWith, deleted, starts, lateRecovery>>

\* Object.keys(downloads), in insertion order
keysInOrder(downloads) == SelectSeq(IdOrder, LAMBDA id : id \in DOMAIN downloads)

\* the workaround: finished downloads that have no localPath
finishedWithoutPath(downloads) ==
  {dlId \in keys(downloads) :
     downloads[dlId].state = "finished" /\ ~truthy(downloads[dlId].localPath)}

\* getDownloadGames(download)[0]
downloadGame(download) == download.game

\* the map from normalized file name to id: a later key overwrites an earlier
nameIdMapOf(downloads) ==
  LET named == {id \in keys(downloads) : downloads[id].localPath # Undefined}
      last(n) == CHOOSE id \in named :
                   /\ normalize(downloads[id].localPath) = n
                   /\ \A o \in named :
                        normalize(downloads[o].localPath) = n
                          => indexOf(IdOrder, o) <= indexOf(IdOrder, id)
  IN [n \in {normalize(downloads[id].localPath) : id \in named} |-> last(n)]

\* knownDLs: the normalized names of the downloads of the game, '' for a
\* download without localPath
knownDLsOf(downloads, gameId) ==
  LET ids == SelectSeq(keysInOrder(downloads),
                       LAMBDA dlId : downloadGame(downloads[dlId]) = gameId)
  IN [i \in 1..Len(ids) |->
        normalize(IF truthy(downloads[ids[i]].localPath)
                    THEN downloads[ids[i]].localPath ELSE "")]

Range(q) == {q[i] : i \in 1..Len(q)}

\* the directory listing refreshDownloads keeps: known archive extension, not
\* a directory
downloadNamesOf(listing) == {filePath \in listing : knownArchiveExt(filePath)}

\* addedDLs: the names whose normalized form is not among knownDLs
addedDLsOf(downloadNames, knownDLs) ==
  {name \in downloadNames : normalize(name) \notin Range(knownDLs)}

\* removedDLs: the entries of knownDLs that are not in the directory
removedDLsOf(downloadNames, knownDLs) ==
  SelectSeq(knownDLs,
            LAMBDA name : name \notin {normalize(d) : d \in downloadNames})

\* nameIdMap[fileName], undefined for a name that is not a key
lookup(nameIdMap, fileName) ==
  IF fileName \in DOMAIN nameIdMap THEN nameIdMap[fileName] ELSE Undefined

\* nameIdMap[fileName] = dlId
assign(nameIdMap, fileName, dlId) ==
  [n \in (DOMAIN nameIdMap) \cup {fileName} |->
     IF n = fileName THEN dlId ELSE nameIdMap[n]]

\* the store after removeDownload was dispatched for every id of the set
removeAll(fs, ids) == [k \in (DOMAIN fs) \ ids |-> fs[k]]

\* the synchronous start of updateDownloadPath(api, gameId): the workaround
\* removals are dispatched, `downloads` stays the state read before them, and
\* the call returns at once when there is no game
UpdateDownloadPath(gameIdArg) ==
  /\ pc = "ready"
  /\ nextRun < runLimit
  /\ LET downloads == files
         gameId == IF gameIdArg = Undefined THEN activeGame ELSE gameIdArg
     IN /\ files' = removeAll(files, finishedWithoutPath(downloads))
        /\ removeDispatched' = removeDispatched \cup finishedWithoutPath(downloads)
        /\ runs' = [runs EXCEPT ![nextRun + 1] =
                      [idleRun EXCEPT !.pc = IF gameId = Undefined
                                               THEN "returned" ELSE "normalize",
                                      !.gameId = gameId,
                                      !.downloads = downloads]]
  /\ nextRun' = nextRun + 1
  /\ UNCHANGED <<disk, dirExists, nextNew, activeGame, currentWatch, watchOpen,
                 watchEnabled, pendingRename, extChanges>>
  /\ UNCHANGED recoveryVars
  /\ UNCHANGED debounceVars
  /\ UNCHANGED installerVars
  /\ UNCHANGED pathVars
  /\ UNCHANGED updateVars
  /\ UNCHANGED importVars

\* 'gamemode-activated': the game is active and updateDownloadPath(api) runs
GameModeActivated(game) ==
  /\ activeGame' = game
  /\ pc = "ready"
  /\ nextRun < runLimit
  /\ LET downloads == files
     IN /\ files' = removeAll(files, finishedWithoutPath(downloads))
        /\ removeDispatched' = removeDispatched \cup finishedWithoutPath(downloads)
        /\ runs' = [runs EXCEPT ![nextRun + 1] =
                      [idleRun EXCEPT !.pc = "normalize",
                                      !.gameId = game,
                                      !.downloads = downloads]]
  /\ nextRun' = nextRun + 1
  /\ UNCHANGED <<disk, dirExists, nextNew, currentWatch, watchOpen,
                 watchEnabled, pendingRename, extChanges>>
  /\ UNCHANGED recoveryVars
  /\ UNCHANGED debounceVars
  /\ UNCHANGED installerVars
  /\ UNCHANGED pathVars
  /\ UNCHANGED updateVars
  /\ UNCHANGED importVars

\* getNormalizeFunc resolved and the directory was made writable and read:
\* nameIdMap, knownDLs, addedDLs and removedDLs are computed and the stat of
\* every added file is started
RefreshList(r) ==
  /\ runs[r].pc = "normalize"
  /\ LET downloads == runs[r].downloads
         knownDLs == knownDLsOf(downloads, runs[r].gameId)
         downloadNames == downloadNamesOf(disk)
     IN runs' = [runs EXCEPT ![r].pc = "adding",
                             ![r].nameIdMap = nameIdMapOf(downloads),
                             ![r].pendingAdd = addedDLsOf(downloadNames, knownDLs),
                             ![r].removedDLs = removedDLsOf(downloadNames, knownDLs)]
  /\ dirExists' = TRUE
  /\ UNCHANGED <<files, removeDispatched, disk, nextNew, activeGame, nextRun,
                 currentWatch, watchOpen, watchEnabled, pendingRename, extChanges>>
  /\ UNCHANGED recoveryVars
  /\ UNCHANGED debounceVars
  /\ UNCHANGED installerVars
  /\ UNCHANGED pathVars
  /\ UNCHANGED updateVars
  /\ UNCHANGED importVars

\* fs.ensureDirWritableAsync or fs.readdirAsync rejected: the error is caught
\* (269-274), nothing is added or removed
RefreshReject(r) ==
  /\ runs[r].pc = "normalize"
  /\ runs' = [runs EXCEPT ![r].pc = "final",
                          ![r].nameIdMap = nameIdMapOf(runs[r].downloads)]
  /\ UNCHANGED <<files, removeDispatched, disk, dirExists, nextNew, activeGame,
                 nextRun, currentWatch, watchOpen, watchEnabled, pendingRename,
                 extChanges>>
  /\ UNCHANGED recoveryVars
  /\ UNCHANGED debounceVars
  /\ UNCHANGED installerVars
  /\ UNCHANGED pathVars
  /\ UNCHANGED updateVars
  /\ UNCHANGED importVars

\* onAddDownload(fileName): the stat succeeded, a record is added under a new
\* id and entered in nameIdMap
AddDownload(r, fileName) ==
  /\ fileName \in runs[r].pendingAdd
  /\ fileName \in disk
  /\ nextNew < Len(NewIds)
  /\ LET dlId == NewIds[nextNew + 1]
     IN /\ files' = addLocalDownloadR(files, dlId, runs[r].gameId, fileName)
        /\ runs' = [runs EXCEPT
                      ![r].pendingAdd = @ \ {fileName},
                      ![r].nameIdMap = assign(@, normalize(fileName), dlId)]
  /\ nextNew' = nextNew + 1
  /\ UNCHANGED <<removeDispatched, disk, dirExists, activeGame, nextRun,
                 currentWatch, watchOpen, watchEnabled, pendingRename, extChanges>>
  /\ UNCHANGED recoveryVars
  /\ UNCHANGED debounceVars
  /\ UNCHANGED installerVars
  /\ UNCHANGED pathVars
  /\ UNCHANGED updateVars
  /\ UNCHANGED importVars

\* onAddDownload(fileName): the file is gone, the stat rejects and with it
\* Promise.map; the other stats go on
AddDownloadFail(r, fileName) ==
  /\ fileName \in runs[r].pendingAdd
  /\ fileName \notin disk
  /\ runs' = [runs EXCEPT ![r].pendingAdd = @ \ {fileName}, ![r].failed = TRUE]
  /\ UNCHANGED <<files, removeDispatched, disk, dirExists, nextNew, activeGame,
                 nextRun, currentWatch, watchOpen, watchEnabled, pendingRename,
                 extChanges>>
  /\ UNCHANGED recoveryVars
  /\ UNCHANGED debounceVars
  /\ UNCHANGED installerVars
  /\ UNCHANGED pathVars
  /\ UNCHANGED updateVars
  /\ UNCHANGED importVars

\* the ids onRemoveDownload dispatches removeDownload with
removedIds(run) ==
  {lookup(run.nameIdMap, run.removedDLs[i]) : i \in 1..Len(run.removedDLs)}

\* every addition is done: Promise.map(removedDLs, onRemoveDownload)
RemoveDownloads(r) ==
  /\ runs[r].pc = "adding"
  /\ runs[r].pendingAdd = {}
  /\ ~runs[r].failed
  /\ files' = removeAll(files, removedIds(runs[r]))
  /\ removeDispatched' = removeDispatched \cup removedIds(runs[r])
  /\ runs' = [runs EXCEPT ![r].pc = "final"]
  /\ UNCHANGED <<disk, dirExists, nextNew, activeGame, nextRun, currentWatch,
                 watchOpen, watchEnabled, pendingRename, extChanges>>
  /\ UNCHANGED recoveryVars
  /\ UNCHANGED debounceVars
  /\ UNCHANGED installerVars
  /\ UNCHANGED pathVars
  /\ UNCHANGED updateVars
  /\ UNCHANGED importVars

\* an addition failed: the error is caught (270-274), no removal runs
RefreshFailed(r) ==
  /\ runs[r].pc = "adding"
  /\ runs[r].failed
  /\ runs' = [runs EXCEPT ![r].pc = "final"]
  /\ UNCHANGED <<files, removeDispatched, disk, dirExists, nextNew, activeGame,
                 nextRun, currentWatch, watchOpen, watchEnabled, pendingRename,
                 extChanges>>
  /\ UNCHANGED recoveryVars
  /\ UNCHANGED debounceVars
  /\ UNCHANGED installerVars
  /\ UNCHANGED pathVars
  /\ UNCHANGED updateVars
  /\ UNCHANGED importVars

\* manager.setDownloadPath and watchDownloads: the old watcher is closed and,
\* unless fs.watch throws for a missing directory, replaced by one that calls
\* this run's change handler
WatchDownloads(r) ==
  /\ runs[r].pc = "final"
  /\ runs' = [runs EXCEPT ![r].pc = "done"]
  /\ managerPath' = downloadPathForGame(runs[r].gameId)
  /\ currentWatch' = IF dirExists THEN r ELSE currentWatch
  /\ watchOpen' = dirExists
  /\ openWatchers' = (openWatchers \ {currentWatch})
                        \cup (IF dirExists THEN {r} ELSE {})
  /\ UNCHANGED runLimit
  /\ UNCHANGED <<files, removeDispatched, disk, dirExists, nextNew, activeGame,
                 nextRun, watchEnabled, pendingRename, extChanges>>
  /\ UNCHANGED recoveryVars
  /\ UNCHANGED debounceVars
  /\ UNCHANGED installerVars
  /\ UNCHANGED updateVars
  /\ UNCHANGED importVars

----------------------------------------------------------------------------
(* The directory watcher, index.ts 116-198 and 489-491 *)

\* findDownload(fileName): the first key whose localPath is fileName
findDownload(fs, fileName) ==
  LET hits == SelectSeq(keysInOrder(fs), LAMBDA iterId : fs[iterId].localPath = fileName)
  IN IF hits = <<>> THEN Undefined ELSE hits[1]

\* 'enable-download-watch'
EnableDownloadWatch(enabled) ==
  /\ pc = "ready"
  /\ watchEnabled # enabled
  /\ watchEnabled' = enabled
  /\ UNCHANGED <<files, removeDispatched, disk, dirExists, nextNew, activeGame,
                 runs, nextRun, currentWatch, watchOpen, pendingRename, extChanges>>
  /\ UNCHANGED recoveryVars
  /\ UNCHANGED debounceVars
  /\ UNCHANGED installerVars
  /\ UNCHANGED pathVars
  /\ UNCHANGED updateVars
  /\ UNCHANGED importVars

\* a file appears in the directory from outside; the open watcher gets 'rename'
FileCreated(fileName) ==
  /\ extChanges < MaxExt
  /\ dirExists
  /\ fileName \notin disk
  /\ disk' = disk \cup {fileName}
  /\ pendingRename' = afterChange(pendingRename, currentWatch, watchOpen,
                                  watchEnabled, fileName)
  /\ extChanges' = extChanges + 1
  /\ UNCHANGED <<files, removeDispatched, dirExists, nextNew, activeGame, runs,
                 nextRun, currentWatch, watchOpen, watchEnabled>>
  /\ UNCHANGED recoveryVars
  /\ UNCHANGED debounceVars
  /\ UNCHANGED installerVars
  /\ UNCHANGED pathVars
  /\ UNCHANGED updateVars
  /\ UNCHANGED importVars

\* a file is deleted from the directory from outside; the open watcher gets
\* 'rename'
FileDeleted(fileName) ==
  /\ extChanges < MaxExt
  /\ fileName \in disk
  /\ disk' = disk \ {fileName}
  /\ pendingRename' = afterChange(pendingRename, currentWatch, watchOpen,
                                  watchEnabled, fileName)
  /\ extChanges' = extChanges + 1
  /\ UNCHANGED <<files, removeDispatched, dirExists, nextNew, activeGame, runs,
                 nextRun, currentWatch, watchOpen, watchEnabled>>
  /\ UNCHANGED recoveryVars
  /\ UNCHANGED debounceVars
  /\ UNCHANGED installerVars
  /\ UNCHANGED pathVars
  /\ UNCHANGED updateVars
  /\ UNCHANGED importVars

\* the second after a 'rename' is over and the file is there: a record is
\* added unless findDownload finds one, and nameIdMap gets the id
RenameFound(r, fileName) ==
  /\ <<r, fileName>> \in pendingRename
  /\ fileName \in disk
  /\ LET found == findDownload(files, fileName)
         dlId == IF found = Undefined THEN NewIds[nextNew + 1] ELSE found
     IN /\ found = Undefined => nextNew < Len(NewIds)
        /\ files' = IF found = Undefined
                      THEN addLocalDownloadR(files, dlId, runs[r].gameId, fileName)
                      ELSE files
        /\ nextNew' = IF found = Undefined THEN nextNew + 1 ELSE nextNew
        /\ runs' = [runs EXCEPT ![r].nameIdMap = assign(@, normalize(fileName), dlId)]
  /\ pendingRename' = pendingRename \ {<<r, fileName>>}
  /\ UNCHANGED <<removeDispatched, disk, dirExists, activeGame, nextRun,
                 currentWatch, watchOpen, watchEnabled, extChanges>>
  /\ UNCHANGED recoveryVars
  /\ UNCHANGED debounceVars
  /\ UNCHANGED installerVars
  /\ UNCHANGED pathVars
  /\ UNCHANGED updateVars
  /\ UNCHANGED importVars

\* the second after a 'rename' is over and the file is gone (ENOENT): the
\* download nameIdMap holds for the name is removed
RenameGone(r, fileName) ==
  /\ <<r, fileName>> \in pendingRename
  /\ fileName \notin disk
  /\ LET dlId == lookup(runs[r].nameIdMap, normalize(fileName))
     IN /\ files' = IF dlId # Undefined THEN removeDownloadR(files, dlId) ELSE files
        /\ removeDispatched' = IF dlId # Undefined
                                 THEN removeDispatched \cup {dlId}
                                 ELSE removeDispatched
  /\ pendingRename' = pendingRename \ {<<r, fileName>>}
  /\ UNCHANGED <<disk, dirExists, nextNew, activeGame, runs, nextRun,
                 currentWatch, watchOpen, watchEnabled, extChanges>>
  /\ UNCHANGED recoveryVars
  /\ UNCHANGED debounceVars
  /\ UNCHANGED installerVars
  /\ UNCHANGED pathVars
  /\ UNCHANGED updateVars
  /\ UNCHANGED importVars

\* updateTimers of run r's change handler: created empty and never assigned
updateTimers(r) == {}

\* a file of the directory is written from outside; the open watcher gets
\* 'update', and the handler starts a timeout only for a name updateTimers holds
FileUpdated(fileName) ==
  /\ extChanges < MaxExt
  /\ fileName \in disk
  /\ extChanges' = extChanges + 1
  /\ LET accepted == /\ currentWatch # 0
                      /\ watchOpen
                      /\ handlerAccepts(watchEnabled, fileName)
     IN /\ pendingUpdate' =
             IF accepted /\ fileName \in updateTimers(currentWatch)
               THEN pendingUpdate \cup {<<currentWatch, fileName>>}
               ELSE pendingUpdate
        /\ updateSeen' =
             IF accepted /\ findDownload(files, fileName) # Undefined
               THEN updateSeen \cup {<<currentWatch, fileName>>}
               ELSE updateSeen
  /\ UNCHANGED <<files, removeDispatched, disk, dirExists, nextNew, activeGame,
                 runs, nextRun, currentWatch, watchOpen, watchEnabled,
                 pendingRename>>
  /\ UNCHANGED recoveryVars
  /\ UNCHANGED debounceVars
  /\ UNCHANGED installerVars
  /\ UNCHANGED pathVars
  /\ UNCHANGED importVars

\* 'will-move-downloads': the watcher is closed and forgotten
WillMoveDownloads ==
  /\ pc = "ready"
  /\ currentWatch # 0
  /\ openWatchers' = openWatchers \ {currentWatch}
  /\ currentWatch' = 0
  /\ watchOpen' = FALSE
  /\ UNCHANGED <<files, removeDispatched, disk, dirExists, nextNew, activeGame,
                 runs, nextRun, watchEnabled, pendingRename, extChanges,
                 runLimit, managerPath>>
  /\ UNCHANGED recoveryVars
  /\ UNCHANGED debounceVars
  /\ UNCHANGED installerVars
  /\ UNCHANGED updateVars
  /\ UNCHANGED importVars

----------------------------------------------------------------------------
(* 'import-downloads': move, queryReplace and removeArchive, index.ts 291-384 *)

MaxMoves == 1

MoveIds == 1..MaxMoves

\* a file 'import-downloads' has not been given yet
idleMove ==
  [pc |-> "idle", dlId |-> Undefined, fileName |-> Undefined,
   gameMode |-> Undefined, size |-> 0]

\* reducer of downloadProgress(id, received, total): the record's size is the
\* total (nothing for an unknown id)
downloadProgressR(fs, id, total) ==
  IF id \in DOMAIN fs THEN [fs EXCEPT ![id].size = Num(total)] ELSE fs

\* the ids removeArchive dispatches removeDownload with
archiveIds(fs, fileName) == {dlId \in keys(fs) : fs[dlId].localPath = fileName}

\* what the move actions leave alone
moveUnchanged ==
  /\ UNCHANGED <<dirExists, activeGame, runs, nextRun, currentWatch, watchOpen,
                 watchEnabled, extChanges>>
  /\ UNCHANGED recoveryVars
  /\ UNCHANGED debounceVars
  /\ UNCHANGED installerVars
  /\ UNCHANGED pathVars
  /\ UNCHANGED updateVars

\* the catch of move: removeDownload(dlId) is dispatched
moveFailed(m, outcome) ==
  /\ files' = removeDownloadR(files, moves[m].dlId)
  /\ removeDispatched' = removeDispatched \cup {moves[m].dlId}
  /\ moves' = [moves EXCEPT ![m].pc = outcome]
  /\ UNCHANGED <<disk, nextNew, pendingRename, nextMove, importEvents,
                 progressDispatched>>
  /\ moveUnchanged

\* the handler of 'import-downloads' for one path: a directory or a missing
\* file is skipped, for a file move starts: the id is drawn and the
\* destination's stat is started
ImportDownloads(fileName, kind, size) ==
  /\ pc = "ready"
  /\ nextMove < MaxMoves
  /\ kind = "file" => nextNew < Len(NewIds)
  /\ nextMove' = nextMove + 1
  /\ nextNew' = IF kind = "file" THEN nextNew + 1 ELSE nextNew
  /\ moves' = [moves EXCEPT ![nextMove + 1] =
                  IF kind = "file"
                    THEN [pc |-> "stat", dlId |-> NewIds[nextNew + 1],
                          fileName |-> fileName, gameMode |-> activeGame,
                          size |-> size]
                    ELSE [idleMove EXCEPT !.pc = "skipped"]]
  /\ UNCHANGED <<files, removeDispatched, disk, pendingRename, importEvents,
                 progressDispatched>>
  /\ moveUnchanged

\* the destination exists: the 'File exists' dialog is shown
StatDestinationFound(m) ==
  /\ moves[m].pc = "stat"
  /\ moves[m].fileName \in disk
  /\ moves' = [moves EXCEPT ![m].pc = "query"]
  /\ UNCHANGED <<files, removeDispatched, disk, nextNew, pendingRename,
                 nextMove, importEvents, progressDispatched>>
  /\ moveUnchanged

\* the destination does not exist: the record is added with size 0 and the
\* copy is started
StatDestinationMissing(m) ==
  /\ moves[m].pc = "stat"
  /\ moves[m].fileName \notin disk
  /\ files' = addLocalDownloadR(files, moves[m].dlId, moves[m].gameMode,
                                moves[m].fileName)
  /\ moves' = [moves EXCEPT ![m].pc = "copy"]
  /\ UNCHANGED <<removeDispatched, disk, nextNew, pendingRename, nextMove,
                 importEvents, progressDispatched>>
  /\ moveUnchanged

\* queryReplace: 'Cancel' rejects with UserCanceled
QueryCancel(m) ==
  /\ moves[m].pc = "query"
  /\ moveFailed(m, "cancelled")

\* queryReplace: 'Replace' starts removeArchive's fs.removeAsync
QueryReplace(m) ==
  /\ moves[m].pc = "query"
  /\ moves' = [moves EXCEPT ![m].pc = "removing"]
  /\ UNCHANGED <<files, removeDispatched, disk, nextNew, pendingRename,
                 nextMove, importEvents, progressDispatched>>
  /\ moveUnchanged

\* removeArchive: the file is removed, every record that names it is removed,
\* then the new record is added with size 0 and the copy is started
RemoveArchiveDone(m) ==
  /\ moves[m].pc = "removing"
  /\ LET fileName == moves[m].fileName
         gone == archiveIds(files, fileName)
     IN /\ disk' = disk \ {fileName}
        /\ pendingRename' =
             IF fileName \in disk
               THEN afterChange(pendingRename, currentWatch, watchOpen,
                                watchEnabled, fileName)
               ELSE pendingRename
        /\ files' = addLocalDownloadR(removeAll(files, gone), moves[m].dlId,
                                      moves[m].gameMode, fileName)
        /\ removeDispatched' = removeDispatched \cup gone
  /\ moves' = [moves EXCEPT ![m].pc = "copy"]
  /\ UNCHANGED <<nextNew, nextMove, importEvents, progressDispatched>>
  /\ moveUnchanged

\* removeArchive: fs.removeAsync rejects
RemoveArchiveFail(m) ==
  /\ moves[m].pc = "removing"
  /\ moves[m].fileName \in disk
  /\ moveFailed(m, "failed")

\* fs.copyAsync resolved: the destination exists
CopyDone(m) ==
  /\ moves[m].pc = "copy"
  /\ dirExists
  /\ disk' = disk \cup {moves[m].fileName}
  /\ pendingRename' =
       IF moves[m].fileName \notin disk
         THEN afterChange(pendingRename, currentWatch, watchOpen, watchEnabled,
                          moves[m].fileName)
         ELSE pendingRename
  /\ moves' = [moves EXCEPT ![m].pc = "copied"]
  /\ UNCHANGED <<files, removeDispatched, nextNew, nextMove, importEvents,
                 progressDispatched>>
  /\ moveUnchanged

\* fs.copyAsync rejected
CopyFail(m) ==
  /\ moves[m].pc = "copy"
  /\ moveFailed(m, "failed")

\* the stat of the copy resolved: downloadProgress is dispatched with the
\* file's size and 'did-import-download' is emitted
StatCopied(m) ==
  /\ moves[m].pc = "copied"
  /\ moves[m].fileName \in disk
  /\ files' = downloadProgressR(files, moves[m].dlId, moves[m].size)
  /\ progressDispatched' =
       progressDispatched \cup {<<moves[m].dlId, moves[m].size, moves[m].size>>}
  /\ importEvents' = Append(importEvents, moves[m].dlId)
  /\ moves' = [moves EXCEPT ![m].pc = "done"]
  /\ UNCHANGED <<removeDispatched, disk, nextNew, pendingRename, nextMove>>
  /\ moveUnchanged

\* the stat of the copy rejected: the file is gone again
StatCopiedFail(m) ==
  /\ moves[m].pc = "copied"
  /\ moves[m].fileName \notin disk
  /\ moveFailed(m, "failed")

----------------------------------------------------------------------------
(* The persisted state the program starts from *)

\* no two persisted records name the same file
uniquePaths(fs) ==
  \A a, b \in DOMAIN fs :
    (a # b /\ truthy(fs[a].localPath)) => fs[a].localPath # fs[b].localPath

PlainRecords ==
  [state : PersistedStates, urls : {Undefined, "[]", "[u1]"},
   localPath : {Undefined, ""} \cup Names, game : {"g1"},
   size : {Num(MaxSize)}, chunks : {[t |-> "undefined", v |-> <<>>]}]

InitCommon ==
  /\ reports = <<>>
  /\ persisted = files
  /\ pendingRemove = {}
  /\ interruptedWith = {}
  /\ removeDispatched = {}
  /\ deleted = {}
  /\ starts = 0
  /\ lateRecovery = {}
  /\ nextNew = 0
  /\ activeGame = Undefined
  /\ runs = [r \in RunIds |-> idleRun]
  /\ nextRun = 0
  /\ currentWatch = 0
  /\ watchOpen = FALSE
  /\ watchEnabled = TRUE
  /\ pendingRename = {}
  /\ extChanges = 0
  /\ now = 0
  /\ timer = [set |-> FALSE, due |-> 0]
  /\ published = speed
  /\ publishTimes = <<>>
  /\ owed = FALSE
  /\ openWatchers = {}
  /\ pendingUpdate = {}
  /\ updateSeen = {}
  /\ moves = [m \in MoveIds |-> idleMove]
  /\ nextMove = 0
  /\ importEvents = <<>>
  /\ progressDispatched = {}
  /\ managerPath = downloadPathForGame(activeGame)

\* no installer action was dispatched and the dialog state is empty
InitNoDialog ==
  /\ installerUI = [k \in {} |-> ""]
  /\ prevUI = installerUI
  /\ lastAction = [type |-> "@@INIT", payload |-> ""]

InitStartup ==
  /\ files \in [PersistedIds -> PlainRecords]
  /\ uniquePaths(files)
  /\ disk \in SUBSET Names
  /\ dirExists = TRUE
  /\ pathDefined \in BOOLEAN
  /\ speed = Num(0)
  /\ pc = "boot"
  /\ runLimit = MaxRuns
  /\ InitCommon
  /\ InitNoDialog

NextStartup ==
  \/ Startup
  \/ \E id \in PersistedIds : RemoveAsyncDone(id)
  \/ \E id \in PersistedIds : RemoveAsyncFail(id)
  \/ StartDownload

SpecStartup == InitStartup /\ [][NextStartup]_vars

----------------------------------------------------------------------------
(* The whole life of the extension: startup, refreshes, the watcher *)

MainRecords ==
  [state : {"init", "paused", "failed", "finished"}, urls : {Undefined, "[u1]"},
   localPath : {Undefined} \cup Names, game : {"g1"},
   size : {Num(MaxSize)}, chunks : {[t |-> "undefined", v |-> <<>>]}]

\* the second record is one recovery leaves alone
QuietRecords == {d \in MainRecords : d.state \in {"paused", "finished"} /\ d.urls = "[u1]"}

Init ==
  /\ files \in [PersistedIds -> MainRecords]
  /\ files["d2"] \in QuietRecords
  /\ uniquePaths(files)
  /\ disk \in SUBSET Names
  /\ dirExists = TRUE
  /\ pathDefined = TRUE
  /\ speed = Num(0)
  /\ pc = "boot"
  /\ runLimit = MaxRuns
  /\ InitCommon
  /\ InitNoDialog

Next ==
  \/ Startup
  \/ \E id \in PersistedIds : RemoveAsyncDone(id)
  \/ \E id \in PersistedIds : RemoveAsyncFail(id)
  \/ StartDownload
  \/ \E g \in Games \cup {Undefined} : UpdateDownloadPath(g)
  \/ \E g \in Games : GameModeActivated(g)
  \/ \E r \in RunIds : RefreshList(r)
  \/ \E r \in RunIds : RefreshReject(r)
  \/ \E r \in RunIds, n \in Names : AddDownload(r, n)
  \/ \E r \in RunIds, n \in Names : AddDownloadFail(r, n)
  \/ \E r \in RunIds : RemoveDownloads(r)
  \/ \E r \in RunIds : RefreshFailed(r)
  \/ \E r \in RunIds : WatchDownloads(r)
  \/ \E e \in BOOLEAN : EnableDownloadWatch(e)
  \/ \E n \in Names : FileCreated(n)
  \/ \E n \in Names : FileDeleted(n)
  \/ \E n \in Names : FileUpdated(n)
  \/ \E r \in RunIds, n \in Names : RenameFound(r, n)
  \/ \E r \in RunIds, n \in Names : RenameGone(r, n)

Spec == Init /\ [][Next]_vars

----------------------------------------------------------------------------
(* Startup recovery of one record, over the sizes and chunk lists *)

\* an IChunk as persisted: the bytes still to fetch (size) and those received
Chunks == [size : {UndefNum} \cup {Num(n) : n \in 0..MaxSize},
           received : {Num(n) : n \in 0..MaxSize}]

RECURSIVE SeqsUpTo(_, _)
SeqsUpTo(S, n) ==
  IF n = 0 THEN {<<>>}
  ELSE LET shorter == SeqsUpTo(S, n - 1)
       IN shorter \cup {Append(q, x) : q \in {r \in shorter : Len(r) = n - 1}, x \in S}

ResumeRecords ==
  [state : interruptibleStates, urls : {Undefined, "[u1]"},
   localPath : {"a.zip"}, game : {"g1"},
   size : {UndefNum} \cup {Num(n) : n \in 0..MaxSize},
   chunks : {[t |-> "undefined", v |-> <<>>]}
            \cup {[t |-> "array", v |-> q] : q \in SeqsUpTo(Chunks, MaxChunks)}]

InitResume ==
  /\ files \in [{"d1"} -> ResumeRecords]
  /\ disk = {"a.zip"}
  /\ dirExists = TRUE
  /\ pathDefined = TRUE
  /\ speed = Num(0)
  /\ pc = "boot"
  /\ runLimit = MaxRuns
  /\ InitCommon
  /\ InitNoDialog

NextResume == Startup

SpecResume == InitResume /\ [][NextResume]_vars

----------------------------------------------------------------------------
(* The speed callback handed to the DownloadManager, index.ts 517-523 *)

\* the number of speed reports followed
MaxReports == 4

\* reducer of setDownloadSpeed(speed)
setDownloadSpeedR(old, reported) == reported

\* mutant: a report of 0 is always suppressed
speedChangedNonZero(reported, stored) == reported # Num(0)

\* (speed !== 0) || (store.getState().persistent.downloads.speed !== 0)
speedChanged(reported, stored) == reported # Num(0) \/ stored # Num(0)

\* new Debouncer(func, 10000, false): the debounce interval and the reset flag
debounceMS == 10000

resetting == FALSE

\* the clock advances in steps of half a debounce interval, MaxTicks times,
\* and further for as long as a timer is waiting
MaxTicks == 4

tickMS == debounceMS \div 2

\* Debouncer.schedule(): starts the timer unless one is already waiting; a
\* waiting timer is restarted only by a resetting debouncer
schedule(t, time) ==
  IF t.set /\ ~resetting THEN t ELSE [set |-> TRUE, due |-> time + debounceMS]

\* the manager reports a speed
ReportSpeed(reported) ==
  /\ Len(reports) < MaxReports
  /\ reports' = Append(reports, reported)
  /\ speed' = IF speedChanged(reported, speed)
                THEN setDownloadSpeedR(speed, reported) ELSE speed
  /\ timer' = IF speedChanged(reported, speed) THEN schedule(timer, now) ELSE timer
  /\ owed' = (owed \/ speedChanged(reported, speed))
  /\ UNCHANGED <<now, published, publishTimes>>
  /\ UNCHANGED <<files, disk, dirExists, pc, pathDefined, persisted,
                 pendingRemove, interruptedWith, removeDispatched, deleted,
                 starts, lateRecovery, nextNew>>
  /\ UNCHANGED refreshVars
  /\ UNCHANGED installerVars
  /\ UNCHANGED pathVars
  /\ UNCHANGED updateVars
  /\ UNCHANGED importVars

InitSpeed ==
  /\ files = [id \in {} |-> 0]
  /\ disk = {}
  /\ dirExists = TRUE
  /\ pathDefined = TRUE
  /\ speed \in {Num(n) : n \in 0..MaxSize}
  /\ pc = "ready"
  /\ runLimit = MaxRuns
  /\ InitCommon
  /\ InitNoDialog

\* the debouncer's timer expires: setDownloadSpeeds(speedHistory) is dispatched
DebounceFire ==
  /\ timer.set
  /\ now >= timer.due
  /\ timer' = [set |-> FALSE, due |-> 0]
  /\ published' = speed
  /\ publishTimes' = Append(publishTimes, now)
  /\ owed' = FALSE
  /\ UNCHANGED <<files, speed, reports, disk, dirExists, pc, pathDefined,
                 persisted, pendingRemove, interruptedWith, removeDispatched,
                 deleted, starts, lateRecovery, nextNew, now>>
  /\ UNCHANGED refreshVars
  /\ UNCHANGED installerVars
  /\ UNCHANGED pathVars
  /\ UNCHANGED updateVars
  /\ UNCHANGED importVars

\* time passes
Tick ==
  /\ now < MaxTicks * tickMS \/ (timer.set /\ now < timer.due)
  /\ now' = now + tickMS
  /\ UNCHANGED <<files, speed, reports, disk, dirExists, pc, pathDefined,
                 persisted, pendingRemove, interruptedWith, removeDispatched,
                 deleted, starts, lateRecovery, nextNew, timer, published,
                 publishTimes, owed>>
  /\ UNCHANGED refreshVars
  /\ UNCHANGED installerVars
  /\ UNCHANGED pathVars
  /\ UNCHANGED updateVars
  /\ UNCHANGED importVars

NextSpeed ==
  \/ \E n \in 0..MaxSize : ReportSpeed(Num(n))
  \/ DebounceFire
  \/ Tick

SpecSpeed == InitSpeed /\ [][NextSpeed]_vars

\* timers expire and time passes
SpecSpeedFair == SpecSpeed /\ WF_vars(DebounceFire) /\ WF_vars(Tick)

----------------------------------------------------------------------------
(* Refreshes that overlap, after startup recovery is over *)

\* a finished download of the first game
OverlapRecords ==
  {d \in MainRecords : d.state = "finished" /\ d.urls = "[u1]" /\ d.localPath \in Names}

InitOverlap ==
  /\ \/ files = [id \in {} |-> 0]
     \/ files \in [{"d1"} -> OverlapRecords]
  /\ disk \in SUBSET Names
  /\ dirExists = TRUE
  /\ pathDefined = TRUE
  /\ speed = Num(0)
  /\ pc = "ready"
  /\ runLimit = MaxOverlap
  /\ InitCommon
  /\ InitNoDialog

NextOverlap ==
  \/ \E g \in Games \cup {Undefined} : UpdateDownloadPath(g)
  \/ \E g \in Games : GameModeActivated(g)
  \/ \E r \in RunIds : RefreshList(r)
  \/ \E r \in RunIds : RefreshReject(r)
  \/ \E r \in RunIds, n \in Names : AddDownload(r, n)
  \/ \E r \in RunIds, n \in Names : AddDownloadFail(r, n)
  \/ \E r \in RunIds : RemoveDownloads(r)
  \/ \E r \in RunIds : RefreshFailed(r)
  \/ \E r \in RunIds : WatchDownloads(r)
  \/ WillMoveDownloads
  \/ \E e \in BOOLEAN : EnableDownloadWatch(e)
  \/ \E n \in Names : FileCreated(n)
  \/ \E n \in Names : FileDeleted(n)
  \/ \E r \in RunIds, n \in Names : RenameFound(r, n)
  \/ \E r \in RunIds, n \in Names : RenameGone(r, n)

SpecOverlap == InitOverlap /\ [][NextOverlap]_vars

----------------------------------------------------------------------------
(* Imports, next to one refresh and the watcher *)

InitImport ==
  /\ \/ files = [id \in {} |-> 0]
     \/ files \in [{"d1"} -> OverlapRecords]
  /\ disk \in SUBSET Names
  /\ dirExists = TRUE
  /\ pathDefined = TRUE
  /\ speed = Num(0)
  /\ pc = "ready"
  /\ runLimit = MaxRuns
  /\ InitCommon
  /\ InitNoDialog

NextImport ==
  \/ \E g \in Games : GameModeActivated(g)
  \/ \E r \in RunIds : RefreshList(r)
  \/ \E r \in RunIds, n \in Names : AddDownload(r, n)
  \/ \E r \in RunIds, n \in Names : AddDownloadFail(r, n)
  \/ \E r \in RunIds : RemoveDownloads(r)
  \/ \E r \in RunIds : RefreshFailed(r)
  \/ \E r \in RunIds : WatchDownloads(r)
  \/ \E e \in BOOLEAN : EnableDownloadWatch(e)
  \/ \E n \in Names : FileCreated(n)
  \/ \E n \in Names : FileDeleted(n)
  \/ \E r \in RunIds, n \in Names : RenameFound(r, n)
  \/ \E r \in RunIds, n \in Names : RenameGone(r, n)
  \/ \E n \in Names, kind \in {"file", "directory", "missing"},
        size \in 1..MaxSize : ImportDownloads(n, kind, size)
  \/ \E m \in MoveIds : StatDestinationFound(m)
  \/ \E m \in MoveIds : StatDestinationMissing(m)
  \/ \E m \in MoveIds : QueryCancel(m)
  \/ \E m \in MoveIds : QueryReplace(m)
  \/ \E m \in MoveIds : RemoveArchiveDone(m)
  \/ \E m \in MoveIds : RemoveArchiveFail(m)
  \/ \E m \in MoveIds : CopyDone(m)
  \/ \E m \in MoveIds : CopyFail(m)
  \/ \E m \in MoveIds : StatCopied(m)
  \/ \E m \in MoveIds : StatCopiedFail(m)

SpecImport == InitImport /\ [][NextImport]_vars

----------------------------------------------------------------------------
(* The installer dialog's reducers *)

\* the values of the dialog state's keys
InfoValues == {"{}", "{moduleName,image}", "{modulename,image}"}

StateValues == {"{}", "{installSteps,currentStep}"}

DataPathValues == {"", "{path}"}

\* the dialog states: each key is absent or holds one of its values
UIStates ==
  UNION {[ks -> InfoValues \cup StateValues \cup DataPathValues] :
           ks \in SUBSET {"info", "state", "dataPath"}}

wellFormedUI(state) ==
  /\ "info" \in DOMAIN state => state["info"] \in InfoValues
  /\ "state" \in DOMAIN state => state["state"] \in StateValues
  /\ "dataPath" \in DOMAIN state => state["dataPath"] \in DataPathValues

\* setSafe(state, [key], value)
setSafe(state, key, value) ==
  [k \in DOMAIN state \cup {key} |-> IF k = key THEN value ELSE state[k]]

keepKey(state, key) == state

\* deleteOrNop(state, [key])
deleteOrNop(state, key) == [k \in DOMAIN state \ {key} |-> state[k]]

START_FOMOD_DIALOG(state, payload) == setSafe(state, "info", payload)

END_FOMOD_DIALOG(state, payload) == deleteOrNop(state, "info")

SET_FOMOD_DIALOG_STATE(state, payload) == setSafe(state, "state", payload)

SET_INSTALLER_DATA_PATH(state, payload) == setSafe(state, "dataPath", payload)

\* an installer action is reduced
Reduce(type, payload, result) ==
  /\ prevUI' = installerUI
  /\ lastAction' = [type |-> type, payload |-> payload]
  /\ installerUI' = result
  /\ UNCHANGED downloadVars

startDialog(info) ==
  Reduce("START_FOMOD_DIALOG", info, START_FOMOD_DIALOG(installerUI, info))

endDialog ==
  Reduce("END_FOMOD_DIALOG", "{}", END_FOMOD_DIALOG(installerUI, "{}"))

setDialogState(state) ==
  Reduce("SET_FOMOD_DIALOG_STATE", state,
         SET_FOMOD_DIALOG_STATE(installerUI, state))

setInstallerDataPath(path) ==
  Reduce("SET_INSTALLER_DATA_PATH", path,
         SET_INSTALLER_DATA_PATH(installerUI, path))

InitInstaller ==
  /\ files = [id \in {} |-> 0]
  /\ disk = {}
  /\ dirExists = TRUE
  /\ pathDefined = TRUE
  /\ speed = Num(0)
  /\ pc = "ready"
  /\ runLimit = MaxRuns
  /\ InitCommon
  /\ installerUI \in {state \in UIStates : wellFormedUI(state)}
  /\ prevUI = installerUI
  /\ lastAction = [type |-> "@@INIT", payload |-> ""]

NextInstaller ==
  \/ \E info \in InfoValues : startDialog(info)
  \/ endDialog
  \/ \E state \in StateValues : setDialogState(state)
  \/ \E path \in DataPathValues : setInstallerDataPath(path)

SpecInstaller == InitInstaller /\ [][NextInstaller]_vars

----------------------------------------------------------------------------
(* Claims about the startup recovery *)

\* the callback has run and every deletion it started has settled
recoveryDone == pc = "ready" /\ pendingRemove = {}

wasMarked(id) == \E pair \in interruptedWith : pair[1] = id

\* C1: after startup recovery, every persisted init/started/pending record
\* without resolved urls has been removed, was never handed to
\* setDownloadInterrupted and is not left in its non-terminal state, also
\* when deleting its partial file fails.
C1_NeverStartedRemoved ==
  recoveryDone =>
    \A id \in DOMAIN persisted :
      (persisted[id].state \in {"init", "started", "pending"}
       /\ persisted[id].urls = Undefined)
        => (id \notin DOMAIN files /\ ~wasMarked(id))

\* C2: a persisted non-terminal record whose urls list is the empty array is
\* removed by recovery, its partial file is deleted and it is not marked
\* interrupted.
C2_EmptyUrlsRemoved ==
  recoveryDone =>
    \A id \in DOMAIN persisted :
      (persisted[id].state \in {"init", "started", "pending"}
       /\ persisted[id].urls = "[]")
        => (/\ id \notin DOMAIN files
            /\ ~wasMarked(id)
            /\ persisted[id].localPath \notin disk)

\* C5 as stated: after startup recovery every persisted record that was not
\* finished or failed and whose urls were resolved is in state interrupted.
C5_AllNonTerminalInterrupted ==
  recoveryDone =>
    \A id \in DOMAIN persisted :
      (persisted[id].state \notin {"finished", "failed"}
       /\ persisted[id].urls = "[u1]")
        => (id \in DOMAIN files /\ files[id].state = "interrupted")

\* C5 (amended): after startup recovery every persisted init/started/pending
\* record whose urls value is set was handed to setDownloadInterrupted; it is
\* in state interrupted when it has a localPath and removed when it has none;
\* a record persisted as paused with a localPath keeps the state paused; no
\* record with urls is left in init/started/pending.
C5_InterruptibleInterrupted ==
  recoveryDone =>
    \A id \in DOMAIN persisted :
      LET d == persisted[id]
          hasPath == d.localPath \notin {Undefined, ""}
      IN /\ (d.state \in {"init", "started", "pending"} /\ d.urls # Undefined)
              => /\ wasMarked(id)
                 /\ hasPath => (id \in DOMAIN files /\ files[id].state = "interrupted")
                 /\ ~hasPath => id \notin DOMAIN files
         /\ (d.state = "paused" /\ hasPath)
              => (id \in DOMAIN files /\ files[id].state = "paused" /\ ~wasMarked(id))
         /\ (d.urls # Undefined /\ id \in DOMAIN files)
              => files[id].state \notin {"init", "started", "pending"}

\* C5 witness: recovery is over, one record was marked interrupted and a
\* paused one kept its state
C5_Witness ==
  /\ recoveryDone
  /\ \E id \in DOMAIN files : files[id].state = "interrupted" /\ wasMarked(id)
  /\ \E id \in DOMAIN files : files[id].state = "paused"

\* C6: every transition caused by recovery, the removals that wait for the
\* deletion of a partial file included, is applied before the observer
\* handles the first start-download request.
C6_RecoveryBeforeStart == lateRecovery = {}

\* C8: the only deletions recovery performs are of the partial file of a
\* never-started record: never the file of a failed or finished record and
\* never the download directory itself.
C8_OnlyPartialFilesDeleted ==
  \A p \in deleted :
    /\ p # ""
    /\ \A id \in DOMAIN persisted :
         persisted[id].state \in {"failed", "finished"} => persisted[id].localPath # p

----------------------------------------------------------------------------
(* Claims about the removal of records *)

\* C7: a record in state failed or interrupted is never removed by the core
\* itself, across startup recovery (the cleanup of records without localPath
\* included), directory refresh and watcher events.
C7_FailedInterruptedStay ==
  [][\A id \in DOMAIN files :
       files[id].state \in {"failed", "interrupted"} => id \in DOMAIN files']_vars

\* C9: a record in an in-progress state (init/started/paused) is not removed
\* by a directory refresh or a watcher event, whether or not its file is on
\* disk or has a known archive extension (the steps of startup recovery are
\* left out: the callback itself and the removals it is waiting for).
C9_InProgressStay ==
  [][\A id \in DOMAIN files :
       (/\ pc = "ready"
        /\ id \notin pendingRemove
        /\ files[id].state \in {"init", "started", "paused"})
         => id \in DOMAIN files']_vars

----------------------------------------------------------------------------
(* Claims about the value handed to setDownloadInterrupted *)

\* the sum of a sequence of integers
RECURSIVE Total(_)
Total(q) == IF q = <<>> THEN 0 ELSE q[1] + Total(Tail(q))

\* C3 as stated: the value is totalSize minus the bytes received over all
\* chunks, and 0 when totalSize is 0 or unknown.
C3_TotalMinusReceived ==
  \A pair \in interruptedWith :
    LET d == persisted[pair[1]]
        cs == orEmpty(d.chunks)
    IN pair[2] = IF d.size.t = "number" /\ d.size.v # 0
                   THEN Num(d.size.v - Total([i \in 1..Len(cs) |-> cs[i].received.v]))
                   ELSE Num(0)

\* C3 (amended): the value is totalSize minus the sum of the chunks' size
\* fields (not of the bytes received), 0 when a chunk has no numeric size,
\* and exactly 0 when totalSize is 0 or undefined, for any chunk list
\* including an absent one.
C3_TotalMinusChunkSizes ==
  \A pair \in interruptedWith :
    LET d == persisted[pair[1]]
        cs == orEmpty(d.chunks)
        numeric == \A i \in 1..Len(cs) : cs[i].size.t = "number"
    IN pair[2] = IF d.size.t = "number" /\ d.size.v # 0 /\ numeric
                   THEN Num(d.size.v - Total([i \in 1..Len(cs) |-> cs[i].size.v]))
                   ELSE Num(0)

\* C3 witness: a record with two chunks whose size fields differ from their
\* received counts was marked interrupted with a non-zero value
C3_Witness ==
  \E pair \in interruptedWith :
    LET cs == orEmpty(persisted[pair[1]].chunks)
    IN /\ Len(cs) = 2
       /\ cs[1].size # cs[1].received
       /\ cs[1].size.t = "number" /\ cs[2].size.t = "number"
       /\ pair[2].v > 0

\* C4: the value handed to setDownloadInterrupted is never negative; chunk
\* bookkeeping that sums to more than totalSize is clamped to 0.
C4_NeverNegative ==
  \A pair \in interruptedWith : pair[2].t = "number" /\ pair[2].v >= 0

----------------------------------------------------------------------------
(* Claims about the speed callback *)

\* C10: after any sequence of speed reports the stored speed is a number,
\* not negative, and exactly 0 whenever the most recent report was 0.
C10_SpeedFollowsReports ==
  /\ speed.t = "number"
  /\ speed.v >= 0
  /\ (reports # <<>> /\ reports[Len(reports)] = Num(0)) => speed = Num(0)
  /\ reports # <<>> => speed = reports[Len(reports)]

\* C10 witness: a non-zero speed was stored and the next report was 0
C10_Witness ==
  /\ Len(reports) >= 2
  /\ reports[Len(reports) - 1] # Num(0)
  /\ reports[Len(reports)] = Num(0)
  /\ speed = Num(0)

\* C11: setDownloadSpeeds is dispatched at most once per debounce interval,
\* every speed report that is applied is eventually followed by a
\* setDownloadSpeeds dispatch, and in the end the published speed is the last
\* reported one, the drop to 0 included.
C11_Throttled ==
  \A i \in 1..Len(publishTimes) - 1 :
    publishTimes[i + 1] - publishTimes[i] >= debounceMS

C11_LastPublished ==
  reports # <<>> => published = reports[Len(reports)]

C11_ThrottledAndPublished ==
  /\ []C11_Throttled
  /\ (owed ~> ~owed)
  /\ <>[]C11_LastPublished

\* two dispatches have happened, and the second published the drop to 0
C11_Witness ==
  /\ Len(publishTimes) >= 2
  /\ \E i \in 1..Len(reports) : reports[i] # Num(0)
  /\ reports[Len(reports)] = Num(0)
  /\ published = Num(0)
  /\ ~owed

\* C12: after START_FOMOD_DIALOG the dialog state's info is exactly the
\* supplied info, and after END_FOMOD_DIALOG, applied to any state, the dialog
\* state has no info key, so ending a started dialog leaves no dialog info.
C12_StartSetsEndClears ==
  /\ lastAction.type = "START_FOMOD_DIALOG" =>
       /\ "info" \in DOMAIN installerUI
       /\ installerUI["info"] = lastAction.payload
  /\ lastAction.type = "END_FOMOD_DIALOG" => "info" \notin DOMAIN installerUI

\* a dialog that had been started was ended
C12_Witness ==
  /\ lastAction.type = "END_FOMOD_DIALOG"
  /\ "info" \in DOMAIN prevUI
  /\ prevUI["info"] = "{modulename,image}"
  /\ "info" \notin DOMAIN installerUI

\* C13: in every reachable state no two download records of a game name the
\* same file, whatever the interleaving of refreshes and watcher events.
C13_OneRecordPerFile ==
  \A a, b \in DOMAIN files :
    (a # b /\ truthy(files[a].localPath) /\ files[a].game = files[b].game)
      => files[a].localPath # files[b].localPath

\* C14: while the watch is disabled, the handling of a watcher event, a
\* 'rename' received before the disabling included, dispatches neither
\* addLocalDownload nor removeDownload.
C14_DisabledWatchIsSilent ==
  [][(/\ ~watchEnabled
      /\ pendingRename' # pendingRename
      /\ pendingRename' \subseteq pendingRename)
       => (files' = files /\ removeDispatched' = removeDispatched)]_vars

\* C15: an 'update' event the enabled watcher accepts for a file that has a
\* record leaves a timeout waiting, the one that dispatches downloadProgress
\* five seconds after the last such event.
C15_UpdateArmsProgress == \A p \in updateSeen : p \in pendingUpdate

\* nothing but refresh r has touched the store or the directory since r
\* started: no other refresh, no record that r has not read or added itself,
\* no file deleted or changed, and no removal dispatched but those of r's own
\* workaround
undisturbed(r) ==
  /\ nextRun = 1
  /\ \A id \in DOMAIN files :
       \/ id \in DOMAIN runs[r].downloads
       \/ \E n \in DOMAIN runs[r].nameIdMap : runs[r].nameIdMap[n] = id
  /\ lateRecovery = {}
  /\ extChanges = 0
  /\ deleted = {}
  /\ pendingRemove = {}
  /\ removeDispatched \subseteq finishedWithoutPath(runs[r].downloads)

\* C16: when an undisturbed refresh passes from its additions to its removals,
\* every known name that is absent from the directory is removed exactly once,
\* and each removal is dispatched with the id of a record of the store.
C16_RemovalsNameRecords ==
  [][\A r \in RunIds :
       (/\ runs[r].pc = "adding"
        /\ runs'[r].pc = "final"
        /\ ~runs[r].failed
        /\ undisturbed(r))
         => /\ \A i, j \in 1..Len(runs[r].removedDLs) :
                 i # j => runs[r].removedDLs[i] # runs[r].removedDLs[j]
            /\ \A i \in 1..Len(runs[r].removedDLs) :
                 lookup(runs[r].nameIdMap, runs[r].removedDLs[i]) \in DOMAIN files]_vars

\* the records of the import's game that name the import's destination
destinationRecords(fs, move) ==
  {k \in DOMAIN fs : fs[k].localPath = move.fileName /\ fs[k].game = move.gameMode}

\* an import that failed or was cancelled leaves no record under its id and
\* has emitted no 'did-import-download'
C17_FailureLeavesNothing ==
  \A m \in MoveIds :
    moves[m].pc \in {"failed", "cancelled"} =>
      /\ moves[m].dlId \notin DOMAIN files
      /\ moves[m].dlId \notin Range(importEvents)

\* 'Cancel' leaves the existing file and the records as they are
C17_CancelChangesNothing ==
  [][\A m \in MoveIds :
       (moves[m].pc # "cancelled" /\ moves'[m].pc = "cancelled")
         => (disk' = disk /\ files' = files)]_vars

\* when an import succeeds, its record is the one record of the destination,
\* its size is the copied size, downloadProgress carried that size as received
\* and as total, and 'did-import-download' was emitted once
C17_SuccessLeavesOneRecord ==
  [][\A m \in MoveIds :
       (moves[m].pc # "done" /\ moves'[m].pc = "done")
         => /\ destinationRecords(files', moves[m]) = {moves[m].dlId}
            /\ files'[moves[m].dlId].size = Num(moves[m].size)
            /\ <<moves[m].dlId, moves[m].size, moves[m].size>> \in progressDispatched'
            /\ Len(SelectSeq(importEvents', LAMBDA e : e = moves[m].dlId)) = 1]_vars

\* C17: a failed or cancelled import leaves no record under its provisional id
\* and emits no 'did-import-download', 'Cancel' changes neither the file nor
\* the records, and a successful import leaves exactly one record for the
\* destination, with the copied size, and emits the event once.
C17_ImportAllOrNothing ==
  /\ []C17_FailureLeavesNothing
  /\ C17_CancelChangesNothing
  /\ C17_SuccessLeavesOneRecord

\* every call of updateDownloadPath made so far has settled
allSettled == \A r \in 1..nextRun : runs[r].pc \in {"done", "returned"}

\* C18: once overlapping refreshes have settled, at most one watcher is open
\* and the manager's path and the watched directory are those of the refresh
\* that was started last.
C18_LastStartedWins ==
  (nextRun >= 1 /\ allSettled /\ runs[nextRun].pc = "done") =>
    /\ Cardinality(openWatchers) <= 1
    /\ managerPath = downloadPathForGame(runs[nextRun].gameId)
    /\ \A w \in openWatchers :
         downloadPathForGame(runs[w].gameId)
           = downloadPathForGame(runs[nextRun].gameId)

====
